---- MODULE Spec2Model ----
(***************************************************************************)
(* Model of the backtrace-error crate (src/src/lib.rs).                    *)
(*                                                                         *)
(* BacktraceError<E> pairs an inner error with a Backtrace.  Two generic   *)
(* From impls build it: one that captures a fresh backtrace (lib.rs        *)
(* 155-162) and one that carries the backtrace of an existing wrapper over *)
(* (lib.rs 137-144).  Which impl applies to which pair of types is decided *)
(* by their where clauses, i.e. by the auto traits NotEqual and            *)
(* NotBacktraceError; the model computes those traits structurally over a  *)
(* small universe of types, the way the compiler derives an auto trait.    *)
(***************************************************************************)
EXTENDS FiniteSets, Integers, Sequences, TLC

VARIABLES
    enabled,    \* process-level setting read by Backtrace::capture()
    site,       \* the call stack at the current program point
    kind,       \* what the caller holds: "none", "plain", "wrapped", "ok"
    plainv,     \* the plain error value (kind = "plain")
    werr,       \* the BacktraceError value (kind = "wrapped")
    okv,        \* the success value (kind = "ok")
    stderr,     \* the diagnostic stream: one entry per eprintln!
    pc,         \* "running", or "panicked" once panic! was reached
    panic_msg,  \* the message panic! was called with
    ret,        \* what expect_or_backtrace returned last (<<>> when nothing)
    rendered,   \* the last text produced through Display (<<>> when none)
    seen,       \* the last answers of source() and backtrace()
    call,       \* history: the report-and-stop operation called last
    trail,      \* history: one record per conversion of this failure
    conv,       \* history: the setting and call stack at the last conversion
    plain0      \* history: the plain error this failure started as

vars == <<enabled, site, kind, plainv, werr, okv, stderr, pc, panic_msg, ret,
          rendered, seen, call, trail, conv, plain0>>

-----------------------------------------------------------------------------
(* Bounds of the model.                                                    *)

MaxSite == 2
MaxCode == 2
MaxOk == 1
MaxSteps == 3

-----------------------------------------------------------------------------
(* Types.  A type is a tuple whose head names the constructor and whose    *)
(* tail holds the type arguments.                                          *)

U32 == <<"u32">>
BacktraceT == <<"Backtrace">>
DynErrorSS == <<"dyn Error+Sync+Send">>
DynError == <<"dyn Error">>
Tuple2(a, b) == <<"Tuple", a, b>>
BoxT(t) == <<"Box", t>>
BacktraceErrorT(t) == <<"BacktraceError", t>>

IoErr == <<"IoErr">>
ParseErr == <<"ParseErr">>
AppErr == <<"AppErr">>
TopErr == <<"TopErr">>
SpanErr == <<"SpanErr">>
BoxDynSS == BoxT(DynErrorSS)
BoxDyn == BoxT(DynError)

\* the error types a plain failure starts as
PlainTypes == {IoErr, ParseErr}
\* the inner types a caller may ask a BacktraceError of
InnerTypes == {IoErr, ParseErr, AppErr, TopErr, SpanErr, BoxDynSS, BoxDyn}

\* The types a value of type t is made of (what an auto trait looks at).
Constituents(t) ==
    CASE t[1] = "BacktraceError" -> {t[2], BacktraceT}
      [] t[1] = "Box" -> {t[2]}
      [] t[1] = "Tuple" -> {t[2], t[3]}
      [] t = SpanErr -> {Tuple2(U32, U32)}
      [] t \in {IoErr, ParseErr, AppErr, TopErr} -> {U32}
      [] OTHER -> {}

IsDyn(t) == t \in {DynErrorSS, DynError}

\* NotEqual without the negative impl for (T, T)
RECURSIVE NotEqual_NoNegativeImpl(_)
NotEqual_NoNegativeImpl(t) ==
    IF t = DynErrorSS THEN TRUE
    ELSE IF IsDyn(t) THEN FALSE
    ELSE \A c \in Constituents(t) : NotEqual_NoNegativeImpl(c)

\* auto trait NotEqual, !NotEqual for (T, T), NotEqual for dyn Error+Sync+Send
RECURSIVE NotEqual(_)
NotEqual(t) ==
    IF t[1] = "Tuple" /\ t[2] = t[3] THEN FALSE
    ELSE IF t = DynErrorSS THEN TRUE
    ELSE IF IsDyn(t) THEN FALSE
    ELSE \A c \in Constituents(t) : NotEqual(c)

\* auto trait NotBacktraceError, !NotBacktraceError for BacktraceError<T>
RECURSIVE NotBacktraceError(_)
NotBacktraceError(t) ==
    IF t[1] = "BacktraceError" THEN FALSE
    ELSE IF t = DynErrorSS THEN TRUE
    ELSE IF IsDyn(t) THEN FALSE
    ELSE \A c \in Constituents(t) : NotBacktraceError(c)

\* E: Error.  BacktraceError<E> is an Error when E is one; a Box<dyn Error>
\* is not.
RECURSIVE IsError(_)
IsError(t) ==
    IF t[1] = "BacktraceError" THEN IsError(t[2])
    ELSE t \in {IoErr, ParseErr, AppErr, TopErr, SpanErr}

\* T: From<U>, the bound of both conversions.
HasFrom(T, U) ==
    \/ T = U
    \/ T = AppErr /\ U \in {IoErr, ParseErr}
    \/ T = TopErr /\ U = AppErr
    \/ T = SpanErr /\ U = IoErr
    \/ T \in {BoxDynSS, BoxDyn} /\ IsError(U)

-----------------------------------------------------------------------------
(* Values.                                                                 *)

IsWrapped(x) == "backtrace" \in DOMAIN x

TypeOf(x) == IF IsWrapped(x) THEN BacktraceErrorT(x.inner.ty) ELSE x.ty

Value(t, c, b) == [ty |-> t, code |-> c, boxed |-> b]

\* T::from(x)
FromRule(T, x) ==
    IF TypeOf(x) = T THEN x
    ELSE IF T \in {BoxDynSS, BoxDyn} THEN Value(T, 0, <<x>>)
    ELSE IF T = AppErr /\ x.ty = IoErr THEN Value(AppErr, 100 + x.code, <<>>)
    ELSE IF T = AppErr /\ x.ty = ParseErr THEN Value(AppErr, 200 + x.code, <<>>)
    ELSE IF T = TopErr /\ x.ty = AppErr THEN Value(TopErr, x.code \div 100, <<>>)
    ELSE Value(T, x.code, <<>>)

NoSnapshot == [status |-> "Disabled", frames |-> 0]

\* a capture that ignores the process-level setting
Capture_IgnoresSetting(on, at) == [status |-> "Captured", frames |-> at]

\* Backtrace::capture()
Capture(on, at) ==
    IF on THEN [status |-> "Captured", frames |-> at] ELSE NoSnapshot

NoValue == Value(IoErr, 0, <<>>)
NoWrapped == [inner |-> NoValue, backtrace |-> NoSnapshot]

-----------------------------------------------------------------------------
(* The two conversions.                                                    *)

\* where clause of impl From<BacktraceError<U>> for BacktraceError<T>
PropagateApplies(T, U) == HasFrom(T, U) /\ NotEqual(Tuple2(T, U))

\* where clause of impl From<U> for BacktraceError<T>
CaptureApplies(T, U) == HasFrom(T, U) /\ NotEqual(Tuple2(U, BacktraceErrorT(T)))

\* a propagation that captures again at the conversion site
PropagateFrom_Recapture(T, w) ==
    [inner |-> FromRule(T, w.inner), backtrace |-> Capture(enabled, site)]

\* a propagation that moves the inner value over without converting it
PropagateFrom_NoConvert(T, w) ==
    [inner |-> w.inner, backtrace |-> w.backtrace]

\* fn from(backtrace_error: BacktraceError<U>) -> BacktraceError<T>
PropagateFrom(T, w) ==
    [inner |-> FromRule(T, w.inner), backtrace |-> w.backtrace]

\* fn from(residual: U) -> BacktraceError<T>
CaptureFrom(T, x, on, at) ==
    [inner |-> FromRule(T, x), backtrace |-> Capture(on, at)]

\* what the caller holds and may hand to a conversion
Held == IF kind = "plain" THEN plainv ELSE werr

\* The impls that give BacktraceError<T>: From<S>.  The reflexive impl
\* From<T> for T of the standard library is the third candidate.
Impls(T, S) ==
    {i \in {"identity", "propagate", "capture"} :
        \/ i = "identity" /\ S = BacktraceErrorT(T)
        \/ i = "propagate" /\ S[1] = "BacktraceError" /\ PropagateApplies(T, S[2])
        \/ i = "capture" /\ CaptureApplies(T, S)}

ApplyImpl(i, T, x, on, at) ==
    CASE i = "identity" -> x
      [] i = "propagate" -> PropagateFrom(T, x)
      [] i = "capture" -> CaptureFrom(T, x, on, at)

\* fn backtrace_error(self) -> BacktraceError<Self::Inner>
BacktraceErrorFn(w) == w

-----------------------------------------------------------------------------
(* Presentation.                                                           *)

\* Display of the inner error
DisplayInner(v) ==
    CASE v.ty = IoErr -> "io error " \o ToString(v.code)
      [] v.ty = ParseErr -> "parse error " \o ToString(v.code)
      [] v.ty = AppErr -> "app error " \o ToString(v.code)
      [] v.ty = TopErr -> "top error " \o ToString(v.code)
      [] OTHER -> "span error " \o ToString(v.code)

RECURSIVE FramesText(_)
FramesText(n) ==
    IF n = 0 THEN "main" ELSE "frame " \o ToString(n) \o "\n" \o FramesText(n - 1)

\* Display of the Backtrace
DisplayBacktrace(b) ==
    IF b.status = "Disabled" THEN "disabled backtrace" ELSE FramesText(b.frames)

\* writeln!(f, "{}", s)
Writeln(f, s) == f \o s \o "\n"

\* a Display that leaves the header line out
Fmt_NoHeader(w) ==
    Writeln(Writeln("", "Initial error: " \o DisplayInner(w.inner)),
            DisplayBacktrace(w.backtrace))

\* impl Display for BacktraceError<E>
Fmt(w) ==
    LET l1 == Writeln("", "Initial error: " \o DisplayInner(w.inner))
        l2 == Writeln(l1, "Error context:")
    IN  Writeln(l2, DisplayBacktrace(w.backtrace))

\* eprintln!("{}", s)
Eprintln(out, s) == Append(out, s \o "\n")

\* fn source(&self): Some(&self.inner)
Source(w) == <<w.inner>>

\* a backtrace() that answers None for a snapshot that holds no frames
BacktraceOf_NoneWhenDisabled(w) ==
    IF w.backtrace.status = "Disabled" THEN <<>> ELSE <<w.backtrace>>

\* fn backtrace(&self): Some(&self.backtrace)
BacktraceOf(w) == <<w.backtrace>>

DefaultMsg == "ResultExt::unwrap_or_backtrace found Err"
Msgs == {"open failed", ""}

\* an Err arm that prints the report before the message
ReportErr_ReportFirst(out, msg, w) ==
    Eprintln(Eprintln(Eprintln(out, Fmt(w)), ""), msg)

\* the Err arm of expect_or_backtrace: what reaches the diagnostic stream
ReportErr(out, msg, w) == Eprintln(Eprintln(Eprintln(out, msg), ""), Fmt(w))

\* an Ok arm that prints a line
ReportOk_Prints(out) == Eprintln(out, "ok")

\* the Ok arm of expect_or_backtrace: what reaches the diagnostic stream
ReportOk(out) == out

-----------------------------------------------------------------------------
Step(impl, T, w) == [impl |-> impl, to |-> T, w |-> w]

NotSeen == [source |-> <<>>, backtrace |-> <<>>]
NoCall == [op |-> "", msg |-> "", arm |-> ""]
NoConv == [on |-> FALSE, at |-> 0]

Init ==
    /\ enabled \in BOOLEAN
    /\ site = 1
    /\ kind = "none"
    /\ plainv = NoValue
    /\ werr = NoWrapped
    /\ okv = 0
    /\ stderr = <<>>
    /\ pc = "running"
    /\ panic_msg = ""
    /\ ret = <<>>
    /\ rendered = <<>>
    /\ seen = NotSeen
    /\ call = NoCall
    /\ trail = <<>>
    /\ conv = NoConv
    /\ plain0 = NoValue

\* the environment: RUST_BACKTRACE is switched
SetEnv ==
    /\ pc = "running"
    /\ enabled' = ~enabled
    /\ UNCHANGED <<site, kind, plainv, werr, okv, stderr, pc, panic_msg, ret,
                   rendered, seen, call, trail, conv, plain0>>

\* the caller: the error travels to another frame
Move(s) ==
    /\ pc = "running"
    /\ s # site
    /\ site' = s
    /\ UNCHANGED <<enabled, kind, plainv, werr, okv, stderr, pc, panic_msg, ret,
                   rendered, seen, call, trail, conv, plain0>>

\* a fallible operation of the caller fails with a plain error
Fail(t, c) ==
    /\ pc = "running" /\ kind = "none"
    /\ kind' = "plain"
    /\ plainv' = Value(t, c, <<>>)
    /\ plain0' = Value(t, c, <<>>)
    /\ trail' = <<>>
    /\ ret' = <<>>
    /\ call' = NoCall
    /\ UNCHANGED <<enabled, site, werr, okv, stderr, pc, panic_msg, rendered,
                   seen, conv>>

\* a fallible operation of the caller succeeds
Succeed(v) ==
    /\ pc = "running" /\ kind = "none"
    /\ kind' = "ok"
    /\ okv' = v
    /\ ret' = <<>>
    /\ call' = NoCall
    /\ UNCHANGED <<enabled, site, plainv, werr, stderr, pc, panic_msg, rendered,
                   seen, trail, conv, plain0>>

\* the caller handles the error and drops it
Drop ==
    /\ pc = "running" /\ kind = "wrapped"
    /\ kind' = "none"
    /\ werr' = NoWrapped
    /\ trail' = <<>>
    /\ conv' = NoConv
    /\ plain0' = NoValue
    /\ rendered' = <<>>
    /\ seen' = NotSeen
    /\ UNCHANGED <<enabled, site, plainv, okv, stderr, pc, panic_msg, ret, call>>

Converted(impl, T, w) ==
    /\ werr' = w
    /\ kind' = "wrapped"
    /\ plainv' = NoValue
    /\ trail' = Append(trail, Step(impl, T, w))
    /\ conv' = [on |-> enabled, at |-> site]
    /\ rendered' = <<>>
    /\ seen' = NotSeen
    /\ UNCHANGED <<enabled, site, okv, stderr, pc, panic_msg, ret, call, plain0>>

\* impl From<U> for BacktraceError<T>, on whatever the caller holds
CaptureConv(T) ==
    /\ pc = "running" /\ kind \in {"plain", "wrapped"}
    /\ Len(trail) < MaxSteps
    /\ CaptureApplies(T, TypeOf(Held))
    /\ Converted("capture", T, CaptureFrom(T, Held, enabled, site))

\* impl From<BacktraceError<U>> for BacktraceError<T>
PropagateConv(T) ==
    /\ pc = "running" /\ kind = "wrapped"
    /\ Len(trail) < MaxSteps
    /\ PropagateApplies(T, werr.inner.ty)
    /\ Converted("propagate", T, PropagateFrom(T, werr))

\* BacktraceError<T> asked of a BacktraceError<T>: whichever impl applies
SameTypeConv ==
    /\ pc = "running" /\ kind = "wrapped"
    /\ Len(trail) < MaxSteps
    /\ \E i \in Impls(werr.inner.ty, TypeOf(werr)) :
          Converted("same:" \o i, werr.inner.ty,
                    ApplyImpl(i, werr.inner.ty, werr, enabled, site))

\* IsBackTraceError::backtrace_error
BacktraceErrorCall ==
    /\ pc = "running" /\ kind = "wrapped"
    /\ Len(trail) < MaxSteps
    /\ NotBacktraceError(werr.inner.ty)
    /\ Converted("backtrace_error", werr.inner.ty, BacktraceErrorFn(werr))

\* to_string() / format!("{}", err)
Render ==
    /\ pc = "running" /\ kind = "wrapped"
    /\ IsError(werr.inner.ty)
    /\ rendered' = <<Fmt(werr)>>
    /\ UNCHANGED <<enabled, site, kind, plainv, werr, okv, stderr, pc, panic_msg,
                   ret, seen, call, trail, conv, plain0>>

\* Error::source() and Error::backtrace()
Inspect ==
    /\ pc = "running" /\ kind = "wrapped"
    /\ IsError(werr.inner.ty)
    /\ seen' = [source |-> Source(werr), backtrace |-> BacktraceOf(werr)]
    /\ UNCHANGED <<enabled, site, kind, plainv, werr, okv, stderr, pc, panic_msg,
                   ret, rendered, call, trail, conv, plain0>>

\* ResultExt::expect_or_backtrace
ExpectOrBacktrace(op, msg) ==
    /\ pc = "running"
    /\ \/ /\ kind = "ok"
          /\ ret' = <<okv>>
          /\ stderr' = ReportOk(stderr)
          /\ kind' = "none"
          /\ okv' = 0
          /\ call' = [op |-> op, msg |-> msg, arm |-> "Ok"]
          /\ UNCHANGED <<pc, panic_msg>>
       \/ /\ kind = "wrapped"
          /\ IsError(werr.inner.ty)
          /\ stderr' = ReportErr(stderr, msg, werr)
          /\ pc' = "panicked"
          /\ panic_msg' = msg
          /\ call' = [op |-> op, msg |-> msg, arm |-> "Err"]
          /\ UNCHANGED <<ret, kind, okv>>
    /\ UNCHANGED <<enabled, site, plainv, werr, rendered, seen, trail, conv, plain0>>

\* ResultExt::unwrap_or_backtrace
UnwrapOrBacktrace == ExpectOrBacktrace("unwrap", DefaultMsg)

Next ==
    \/ SetEnv
    \/ \E s \in 1..MaxSite : Move(s)
    \/ \E t \in PlainTypes, c \in 1..MaxCode : Fail(t, c)
    \/ \E v \in 1..MaxOk : Succeed(v)
    \/ Drop
    \/ \E T \in InnerTypes : CaptureConv(T)
    \/ \E T \in InnerTypes : PropagateConv(T)
    \/ SameTypeConv
    \/ BacktraceErrorCall
    \/ Render
    \/ Inspect
    \/ \E m \in Msgs : ExpectOrBacktrace("expect", m)
    \/ UnwrapOrBacktrace

Spec == Init /\ [][Next]_vars

-----------------------------------------------------------------------------
(* Properties.                                                             *)

Last(q) == q[Len(q)]

\* the first i conversions are a capture followed by propagations only
PropagatedOnly(i) ==
    /\ i \in 1..Len(trail)
    /\ trail[1].impl = "capture"
    /\ \A j \in 2..i : trail[j].impl = "propagate"

\* what a conversion step was handed
InputOf(i) == IF i = 1 THEN plain0 ELSE trail[i - 1].w

RECURSIVE ComposeFrom(_, _, _)
ComposeFrom(i, n, x) ==
    IF i > n THEN x ELSE ComposeFrom(i + 1, n, FromRule(trail[i].to, x))

CaptureSteps == {i \in 1..Len(trail) : trail[i].impl \in {"capture", "same:capture"}}

\* the three-part report, written out
ReportText(m, t) == "Initial error: " \o m \o "\n" \o "Error context:\n" \o t \o "\n"

\* C1: single capture.  Every wrapped value of a chain that starts with the
\* capturing conversion and goes on through N propagating conversions
\* carries the snapshot captured at construction.
Thm_SingleCapture ==
    \A i \in 1..Len(trail) :
        PropagatedOnly(i) => trail[i].w.backtrace = trail[1].w.backtrace

\* two propagations, the last one made with capture enabled and at another
\* call stack than the one captured
Wit_SingleCapture ==
    /\ kind = "wrapped"
    /\ Len(trail) = 3
    /\ PropagatedOnly(3)
    /\ werr.backtrace.status = "Captured"
    /\ conv.on
    /\ conv.at # werr.backtrace.frames

\* C2: the capturing conversion never takes a wrapped error, so one failure
\* has at most one captured snapshot and no wrapped error sits inside the
\* inner value of another.
Claim_CaptureExcludesWrapped ==
    /\ Cardinality(CaptureSteps) <= 1
    /\ kind = "wrapped" => \A b \in 1..Len(werr.inner.boxed) :
                              ~IsWrapped(werr.inner.boxed[b])

\* C3: inner conversion.  After the capturing conversion and any number of
\* propagations the inner value is the plain error taken through the From
\* rule of each target type in turn.
Thm_InnerConversion ==
    \A i \in 1..Len(trail) :
        PropagatedOnly(i) => trail[i].w.inner = ComposeFrom(1, i, plain0)

\* a chain A -> B -> C over three different inner types
Wit_InnerConversion ==
    /\ kind = "wrapped"
    /\ Len(trail) = 3
    /\ PropagatedOnly(3)
    /\ trail[1].to = IoErr /\ trail[2].to = AppErr /\ trail[3].to = TopErr
    /\ werr.inner = Value(TopErr, 1, <<>>)

\* C4: presentation.  Display renders "Initial error: <m>\n", then
\* "Error context:\n", then "<s>\n", and nothing else.
Thm_PresentationFormat ==
    rendered # <<>> =>
        rendered = <<ReportText(DisplayInner(werr.inner),
                                DisplayBacktrace(werr.backtrace))>>

\* a report of a captured, multi-line snapshot
Wit_PresentationFormat ==
    /\ rendered # <<>>
    /\ werr.backtrace.status = "Captured"
    /\ werr.backtrace.frames > 1

\* C5: report and stop on failure.  On Err the stream receives the message
\* (the default one for unwrap_or_backtrace), a blank line and the report,
\* in this order; the panic carries the same message and nothing runs after.
Thm_ReportAndStopErr ==
    call.arm = "Err" =>
        LET msg == IF call.op = "unwrap"
                   THEN "ResultExt::unwrap_or_backtrace found Err"
                   ELSE call.msg
        IN  /\ stderr = << msg \o "\n", "\n",
                           ReportText(DisplayInner(werr.inner),
                                      DisplayBacktrace(werr.backtrace)) \o "\n" >>
            /\ pc = "panicked"
            /\ panic_msg = msg
            /\ ret = <<>>
            /\ ~ENABLED Next

Wit_ReportAndStopErr ==
    /\ call.arm = "Err"
    /\ call.op = "unwrap"
    /\ pc = "panicked"
    /\ werr.backtrace.status = "Captured"

\* C6: report and stop on success.  On Ok(v) both operations return v,
\* write nothing and do not stop the process.
Thm_ReportAndStopOk ==
    [][kind = "ok" /\ kind' # "ok" =>
          /\ ret' = <<okv>>
          /\ call'.arm = "Ok"
          /\ stderr' = stderr
          /\ pc' = "running"]_vars

Wit_ReportAndStopOk ==
    /\ call.arm = "Ok"
    /\ ret # <<>>
    /\ ret[1] > 0
    /\ stderr = <<>>
    /\ pc = "running"

\* C7: disabled capture.  With capture disabled the capturing conversion
\* still gives a wrapped error holding the converted inner value, and its
\* report is the three-part text with the marker for a disabled snapshot.
Thm_DisabledCapture ==
    (kind = "wrapped" /\ Last(trail).impl = "capture" /\ ~conv.on) =>
        /\ pc = "running" \/ call.arm = "Err"
        /\ werr.inner = FromRule(Last(trail).to, InputOf(Len(trail)))
        /\ werr.backtrace.status = "Disabled"
        /\ (pc = "running" /\ IsError(werr.inner.ty)) => ENABLED Render
        /\ rendered # <<>> =>
              rendered = <<ReportText(DisplayInner(werr.inner), "disabled backtrace")>>

Wit_DisabledCapture ==
    /\ kind = "wrapped"
    /\ Len(trail) = 1
    /\ ~conv.on
    /\ rendered # <<>>
    /\ werr.inner.ty = AppErr

\* C8: introspection.  source() is the current inner error and backtrace()
\* the carried snapshot, neither ever none; after propagation the snapshot
\* is still the one captured at construction.
Thm_Introspection ==
    seen # NotSeen =>
        /\ seen.source = <<werr.inner>>
        /\ seen.backtrace = <<werr.backtrace>>
        /\ PropagatedOnly(Len(trail)) => seen.backtrace = <<trail[1].w.backtrace>>

Wit_Introspection ==
    /\ seen # NotSeen
    /\ Len(trail) = 3
    /\ PropagatedOnly(3)
    /\ werr.backtrace.status = "Disabled"
    /\ enabled

\* C9: same type.  Asking BacktraceError<T> of a BacktraceError<T> matches
\* neither conversion of the crate and gives the input back, as does
\* backtrace_error.
Thm_SameTypePassThrough ==
    /\ kind = "wrapped" =>
          /\ ~NotEqual(Tuple2(werr.inner.ty, werr.inner.ty))
          /\ ~NotEqual(Tuple2(TypeOf(werr), TypeOf(werr)))
          /\ ~PropagateApplies(werr.inner.ty, werr.inner.ty)
          /\ ~CaptureApplies(werr.inner.ty, TypeOf(werr))
          /\ Impls(werr.inner.ty, TypeOf(werr)) = {"identity"}
    /\ \A i \in 2..Len(trail) :
          trail[i].impl \notin {"capture", "propagate"} =>
              /\ trail[i].impl \in {"same:identity", "backtrace_error"}
              /\ trail[i].w = trail[i - 1].w

Wit_SameTypePassThrough ==
    /\ kind = "wrapped"
    /\ Len(trail) = 3
    /\ trail[2].impl = "same:identity"
    /\ trail[3].impl = "backtrace_error"
    /\ werr.backtrace.status = "Captured"
    /\ conv.on
    /\ conv.at # werr.backtrace.frames

\* C10: availability.  A wrapped error of inner type E converts into one of
\* inner type F whenever F is constructible from E and differs from E.
Claim_PropagationAvailable ==
    kind = "wrapped" =>
        \A F \in InnerTypes :
            (HasFrom(F, werr.inner.ty) /\ F # werr.inner.ty) =>
                PropagateApplies(F, werr.inner.ty)

====
